---- MODULE Spec2Model ----
(***************************************************************************)
(* A model of keyword_tool.py: the keyword planner's batch pipeline        *)
(*   load config -> fetch ideas -> volume filter -> theme advisor ->       *)
(*   bucketing loop (get_ad_group_for_keyword) -> print_structured_plan.   *)
(*                                                                         *)
(* Python strings are sequences of one-character strings, so that lower(), *)
(* the `in` substring test, split() and string comparison are computed     *)
(* character by character, as Python computes them.                        *)
(***************************************************************************)
EXTENDS Integers, Sequences, FiniteSets, TLC

VARIABLES
    pc,                 \* position of the script: the next statement to run
    exit_code,          \* process exit status; NoExit while running
    stdout,             \* the lines printed so far, as tags (a traceback included)
    brand_name,         \* config['brand_info']['name']
    competitor_names,   \* config['brand_info']['competitor_names']
    service_locations,  \* config['brand_info']['service_locations']
    min_volume,         \* config['settings']['min_search_volume']
    raw_ideas,          \* result of get_keyword_ideas
    filtered_ideas,     \* the volume-filtered ideas
    llm_response,       \* what the theme advisor call produced
    llm_themes,         \* value returned by get_strategic_themes_from_llm
    ad_groups,          \* defaultdict(list): bucket name -> records
    idx,                \* index into filtered_ideas of the next loop iteration
    keyword,            \* text of the keyword last classified
    ad_group_name,      \* bucket name last returned by the classifier
    report              \* the groups printed by print_structured_plan

vars ==
    <<pc, exit_code, stdout, brand_name, competitor_names, service_locations,
      min_volume, raw_ideas, filtered_ideas, llm_response, llm_themes,
      ad_groups, idx, keyword, ad_group_name, report>>

-----------------------------------------------------------------------------
\* Bounds of the model.

\* longest sequence of ideas the idea source returns
MaxIdeas == 2

\* largest avg_monthly_searches value and largest min_search_volume
MaxVolume == 2

\* longest theme list handed to the classifier on its own
MaxThemes == 2

-----------------------------------------------------------------------------
\* Python strings.

UpperCase ==
    <<"A", "B", "C", "D", "E", "F", "G", "H", "I", "J", "K", "L", "M",
      "N", "O", "P", "Q", "R", "S", "T", "U", "V", "W", "X", "Y", "Z">>

LowerCase ==
    <<"a", "b", "c", "d", "e", "f", "g", "h", "i", "j", "k", "l", "m",
      "n", "o", "p", "q", "r", "s", "t", "u", "v", "w", "x", "y", "z">>

\* position of character c in alphabet s, 0 when absent
IndexIn(c, s) ==
    IF \E i \in DOMAIN s : s[i] = c
    THEN CHOOSE i \in DOMAIN s : s[i] = c
    ELSE 0

\* str.lower() on every character of the model's alphabet
LowerOf ==
    [c \in {UpperCase[i] : i \in DOMAIN UpperCase}
            \cup {LowerCase[i] : i \in DOMAIN LowerCase} \cup {" ", "&", "-"} |->
        IF IndexIn(c, UpperCase) > 0 THEN LowerCase[IndexIn(c, UpperCase)] ELSE c]

\* str.lower() on one character
lower_char(c) ==
    LowerOf[c]

\* str.lower()
lower(s) ==
    [i \in 1..Len(s) |-> lower_char(s[i])]

\* Python's `a in b` on strings: a occurs in b as a contiguous substring
str_in(a, b) ==
    \E i \in 0..(Len(b) - Len(a)) : SubSeq(b, i + 1, i + Len(a)) = a

\* str.split(): the maximal runs of non-whitespace characters, in order
RECURSIVE split_from(_, _, _)
split_from(s, i, word) ==
    IF i > Len(s)
    THEN IF word = <<>> THEN <<>> ELSE <<word>>
    ELSE IF s[i] = " "
         THEN IF word = <<>>
              THEN split_from(s, i + 1, <<>>)
              ELSE <<word>> \o split_from(s, i + 1, <<>>)
         ELSE split_from(s, i + 1, Append(word, s[i]))

split(s) ==
    split_from(s, 1, <<>>)

\* ord() on every character of the model's alphabet
CodePoint ==
    [c \in DOMAIN LowerOf |->
        IF c = " " THEN 32
        ELSE IF c = "&" THEN 38
        ELSE IF c = "-" THEN 45
        ELSE IF IndexIn(c, UpperCase) > 0 THEN 64 + IndexIn(c, UpperCase)
        ELSE 96 + IndexIn(c, LowerCase)]

\* ord(): the code point of a character
ord(c) ==
    CodePoint[c]

\* Python's a < b on strings: code-point comparison at the first difference,
\* a proper prefix being smaller
RECURSIVE str_lt(_, _)
str_lt(a, b) ==
    IF b = <<>> THEN FALSE
    ELSE IF a = <<>> THEN TRUE
    ELSE IF ord(Head(a)) # ord(Head(b)) THEN ord(Head(a)) < ord(Head(b))
    ELSE str_lt(Tail(a), Tail(b))

-----------------------------------------------------------------------------
\* String constants.

\* Bucket names returned by get_ad_group_for_keyword (lines 41, 44, 47, 50, 57).
BrandTerms ==
    <<"B", "r", "a", "n", "d", " ", "T", "e", "r", "m", "s">>
CompetitorTerms ==
    <<"C", "o", "m", "p", "e", "t", "i", "t", "o", "r", " ", "T", "e", "r", "m", "s">>
LocationBasedTerms ==
    <<"L", "o", "c", "a", "t", "i", "o", "n", "-", "B", "a", "s", "e", "d", " ", "T", "e", "r", "m", "s">>
InformationalLongTail ==
    <<"I", "n", "f", "o", "r", "m", "a", "t", "i", "o", "n", "a", "l", " ", "&", " ", "L", "o", "n", "g", "-", "T", "a", "i", "l">>
GeneralProductCategoryTerms ==
    <<"G", "e", "n", "e", "r", "a", "l", " ", "P", "r", "o", "d", "u", "c", "t", " ", "&", " ", "C", "a", "t", "e", "g", "o", "r", "y", " ", "T", "e", "r", "m", "s">>

\* Trigger phrases and label markers (lines 46, 47, 49, 50).
TrigNearMe ==
    <<"n", "e", "a", "r", " ", "m", "e">>
TrigNearby ==
    <<"n", "e", "a", "r", "b", "y">>
TrigBest ==
    <<"b", "e", "s", "t">>
TrigWhatIs ==
    <<"w", "h", "a", "t", " ", "i", "s">>
TrigHowTo ==
    <<"h", "o", "w", " ", "t", "o">>
MarkLocal ==
    <<"l", "o", "c", "a", "l">>
MarkNear ==
    <<"n", "e", "a", "r">>
MarkInformational ==
    <<"i", "n", "f", "o", "r", "m", "a", "t", "i", "o", "n", "a", "l">>
MarkQuestion ==
    <<"q", "u", "e", "s", "t", "i", "o", "n">>

\* The fallback theme labels (line 34).
ThGeneral ==
    <<"G", "e", "n", "e", "r", "a", "l">>
ThCompetitors ==
    <<"C", "o", "m", "p", "e", "t", "i", "t", "o", "r", "s">>
ThLocalSearches ==
    <<"L", "o", "c", "a", "l", " ", "S", "e", "a", "r", "c", "h", "e", "s">>
ThEquipment ==
    <<"E", "q", "u", "i", "p", "m", "e", "n", "t">>
ThQuestions ==
    <<"Q", "u", "e", "s", "t", "i", "o", "n", "s">>

\* Sample theme labels an advisor may return.
ThLocalDeals ==
    <<"L", "o", "c", "a", "l", " ", "D", "e", "a", "l", "s">>
ThHikingGear ==
    <<"H", "i", "k", "i", "n", "g", " ", "G", "e", "a", "r">>
ThFootwearCare ==
    <<"F", "o", "o", "t", "w", "e", "a", "r", " ", "C", "a", "r", "e">>
ThStoresNearYou ==
    <<"S", "t", "o", "r", "e", "s", " ", "N", "e", "a", "r", " ", "Y", "o", "u">>
ThDogToys ==
    <<"D", "o", "g", " ", "T", "o", "y", "s">>
ThAllBootsNearYou ==
    <<"a", "l", "l", " ", "b", "o", "o", "t", "s", " ", "n", "e", "a", "r", " ", "y", "o", "u">>

\* Sample configuration strings.
Acme ==
    <<"A", "c", "m", "e">>
Nike ==
    <<"N", "i", "k", "e">>
Puma ==
    <<"P", "u", "m", "a">>
Austin ==
    <<"A", "u", "s", "t", "i", "n">>

\* Sample keyword texts.
KwAcmeNearMe ==
    <<"A", "C", "M", "E", " ", "s", "h", "o", "e", "s", " ", "n", "e", "a", "r", " ", "m", "e">>
KwAcmeAll ==
    <<"b", "e", "s", "t", " ", "a", "c", "m", "e", " ", "v", "s", " ", "n", "i", "k", "e", " ", "a", "u", "s", "t", "i", "n", " ", "g", "e", "a", "r">>
KwNikeAustin ==
    <<"N", "i", "k", "e", " ", "h", "i", "k", "i", "n", "g", " ", "b", "o", "o", "t", "s", " ", "a", "u", "s", "t", "i", "n">>
KwPumaBest ==
    <<"b", "e", "s", "t", " ", "p", "u", "m", "a", " ", "s", "h", "o", "e", "s">>
KwBestNearMe ==
    <<"b", "e", "s", "t", " ", "h", "i", "k", "i", "n", "g", " ", "s", "h", "o", "e", "s", " ", "n", "e", "a", "r", " ", "m", "e">>
KwAustinDog ==
    <<"A", "u", "s", "t", "i", "n", " ", "d", "o", "g", " ", "s", "t", "o", "r", "e", "s">>
KwHowToCare ==
    <<"h", "o", "w", " ", "t", "o", " ", "c", "a", "r", "e", " ", "f", "o", "r", " ", "b", "o", "o", "t", "s">>
KwHikingBoots ==
    <<"w", "a", "t", "e", "r", "p", "r", "o", "o", "f", " ", "h", "i", "k", "i", "n", "g", " ", "b", "o", "o", "t", "s">>
KwDogFood ==
    <<"d", "o", "g", " ", "f", "o", "o", "d">>
KwSocks ==
    <<"s", "o", "c", "k", "s">>
KwNearbyGear ==
    <<"n", "e", "a", "r", "b", "y", " ", "g", "e", "a", "r">>
KwAcmeBoots ==
    <<"a", "c", "m", "e", " ", "b", "o", "o", "t", "s">>
KwBootsNearMe ==
    <<"b", "o", "o", "t", "s", " ", "n", "e", "a", "r", " ", "m", "e">>

FixedBuckets ==
    {BrandTerms, CompetitorTerms, LocationBasedTerms, InformationalLongTail,
     GeneralProductCategoryTerms}

-----------------------------------------------------------------------------
\* get_ad_group_for_keyword

Min(S) ==
    CHOOSE x \in S : \A y \in S : x <= y

\* is_brand with the brand name compared as written: brand_name in kw_lower
is_brand_case_sensitive(brand, kw_lower) ==
    str_in(brand, kw_lower)

\* line 40: brand_name.lower() in kw_lower
is_brand(brand, kw_lower) ==
    str_in(lower(brand), kw_lower)

\* is_competitor with all() in place of any()
is_competitor_all(competitors, kw_lower) ==
    \A i \in DOMAIN competitors : str_in(lower(competitors[i]), kw_lower)

\* line 43: any(competitor.lower() in kw_lower for competitor in competitor_names)
is_competitor(competitors, kw_lower) ==
    \E i \in DOMAIN competitors : str_in(lower(competitors[i]), kw_lower)

\* line 46: a configured location or one of "near me", "nearby"
is_location(locs, kw_lower) ==
    \/ \E i \in DOMAIN locs : str_in(lower(locs[i]), kw_lower)
    \/ \E trig \in {TrigNearMe, TrigNearby} : str_in(trig, kw_lower)

\* line 49: one of "best", "what is", "how to"
is_informational(kw_lower) ==
    \E trig \in {TrigBest, TrigWhatIs, TrigHowTo} : str_in(trig, kw_lower)

\* next((theme for theme in themes if m1 in theme.lower() or m2 in theme.lower()), default)
next_theme(themes, m1, m2, default) ==
    LET hits == {i \in DOMAIN themes :
                    str_in(m1, lower(themes[i])) \/ str_in(m2, lower(themes[i]))}
    IN  IF hits = {} THEN default ELSE themes[Min(hits)]

\* triggers with the length test len(word) > 3
triggers_longer(theme) ==
    SelectSeq(split(lower(theme)), LAMBDA word : Len(word) > 3)

\* line 53: [word for word in theme.lower().split() if len(word) > 2]
triggers(theme) ==
    SelectSeq(split(lower(theme)), LAMBDA word : Len(word) > 2)

\* overlap_theme returning the lowered label, theme.lower(), of the match
overlap_theme_lowered(themes, kw_lower) ==
    LET hits == {i \in DOMAIN themes :
                    \E t \in DOMAIN triggers(themes[i]) :
                        str_in(triggers(themes[i])[t], kw_lower)}
    IN  IF hits = {} THEN GeneralProductCategoryTerms
        ELSE lower(themes[Min(hits)])

\* lines 52-57: the first theme with a trigger occurring in the keyword
overlap_theme(themes, kw_lower) ==
    LET hits == {i \in DOMAIN themes :
                    \E t \in DOMAIN triggers(themes[i]) :
                        str_in(triggers(themes[i])[t], kw_lower)}
    IN  IF hits = {} THEN GeneralProductCategoryTerms ELSE themes[Min(hits)]

\* get_ad_group_for_keyword with the informational rule tried before the
\* location rule
get_ad_group_for_keyword_info_first(kw, brand, competitors, locs, themes) ==
    LET kw_lower == lower(kw)
    IN  IF is_brand(brand, kw_lower) THEN BrandTerms
        ELSE IF is_competitor(competitors, kw_lower) THEN CompetitorTerms
        ELSE IF is_informational(kw_lower)
             THEN next_theme(themes, MarkInformational, MarkQuestion,
                             InformationalLongTail)
        ELSE IF is_location(locs, kw_lower)
             THEN next_theme(themes, MarkLocal, MarkNear, LocationBasedTerms)
        ELSE overlap_theme(themes, kw_lower)

get_ad_group_for_keyword(kw, brand, competitors, locs, themes) ==
    LET kw_lower == lower(kw)
    IN  IF is_brand(brand, kw_lower) THEN BrandTerms
        ELSE IF is_competitor(competitors, kw_lower) THEN CompetitorTerms
        ELSE IF is_location(locs, kw_lower)
             THEN next_theme(themes, MarkLocal, MarkNear, LocationBasedTerms)
        ELSE IF is_informational(kw_lower)
             THEN next_theme(themes, MarkInformational, MarkQuestion,
                             InformationalLongTail)
        ELSE overlap_theme(themes, kw_lower)

-----------------------------------------------------------------------------
\* Python values of llm_themes: a list of strings, or None.

PyList(items) ==
    [type |-> "list", items |-> items]

PyNone ==
    [type |-> "NoneType", items |-> <<>>]

\* exit_code of a process still running
NoExit == -1

\* all sequences over S of length at most n
SeqsUpTo(S, n) ==
    UNION {[1..k -> S] : k \in 0..n}

\* Python's None, where an integer is expected
None == -1

\* Python's `x or 0` on an integer or None
or_0(x) ==
    IF x = None \/ x = 0 THEN 0 ELSE x

-----------------------------------------------------------------------------
\* The pipeline's inputs.

PipelineKeywords ==
    {KwAcmeBoots, KwHikingBoots, KwBootsNearMe}

\* a keyword idea: its text and keyword_idea_metrics.avg_monthly_searches
\* (competition and the bid fields are copied through to the record untouched)
Ideas ==
    [text : PipelineKeywords, avg_monthly_searches : {None} \cup 0..MaxVolume]

\* line 34
FallbackThemes ==
    <<ThGeneral, ThCompetitors, ThLocalSearches, ThEquipment, ThQuestions>>

AdvisorLists ==
    {<<>>, <<ThHikingGear, ThLocalDeals>>, <<ThAllBootsNearYou>>}

\* what model.generate_content and json.loads(response.text.strip(...)) can
\* produce, by the branch of lines 27-34 it takes:
\*   raise         the call raises
\*   invalid_json  the stripped text is not JSON: json.loads raises
\*   not_object    JSON, but not an object: .get raises AttributeError
\*   no_themes_key a JSON object without the key "themes"
\*   themes_null   a JSON object {"themes": null}
\*   themes_list   a JSON object {"themes": [...]}
Responses ==
    {[kind |-> k, themes |-> <<>>] :
        k \in {"raise", "invalid_json", "not_object", "no_themes_key", "themes_null"}}
    \cup {[kind |-> "themes_list", themes |-> t] : t \in AdvisorLists}

NoResponse ==
    [kind |-> "none", themes |-> <<>>]

-----------------------------------------------------------------------------
\* The volume filter, line 127.

\* the filter with > in place of >=
RECURSIVE volume_filter_strict(_, _)
volume_filter_strict(ideas, threshold) ==
    IF ideas = <<>> THEN <<>>
    ELSE IF or_0(Head(ideas).avg_monthly_searches) > threshold
         THEN <<Head(ideas)>> \o volume_filter_strict(Tail(ideas), threshold)
         ELSE volume_filter_strict(Tail(ideas), threshold)

RECURSIVE volume_filter(_, _)
volume_filter(ideas, threshold) ==
    IF ideas = <<>> THEN <<>>
    ELSE IF or_0(Head(ideas).avg_monthly_searches) >= threshold
         THEN <<Head(ideas)>> \o volume_filter(Tail(ideas), threshold)
         ELSE volume_filter(Tail(ideas), threshold)

-----------------------------------------------------------------------------
\* get_strategic_themes_from_llm, lines 26-34.

themes_from_response(resp) ==
    IF resp.kind \in {"raise", "invalid_json", "not_object"}
    THEN PyList(FallbackThemes)                 \* except Exception: line 34
    ELSE IF resp.kind = "no_themes_key"
    THEN PyList(<<>>)                           \* .get("themes", []): line 29
    ELSE IF resp.kind = "themes_null"
    THEN PyNone                                 \* .get returns the null
    ELSE PyList(resp.themes)

-----------------------------------------------------------------------------
\* The bucketing loop, lines 134-143.

\* get_ad_group_for_keyword raises TypeError when it reaches an iteration over
\* themes that is not a list: lines 47, 50 and 52 all iterate llm_themes
classify_raises(kw, brand, competitors, themes) ==
    /\ themes.type # "list"
    /\ ~is_brand(brand, lower(kw))
    /\ ~is_competitor(competitors, lower(kw))

\* the record appended at lines 137-143
record_of(idea) ==
    [keyword |-> idea.text,
     avg_monthly_searches |-> or_0(idea.avg_monthly_searches)]

\* ad_groups[name] = [rec]: assignment in place of append
dict_append_overwrite(d, name, rec) ==
    [k \in DOMAIN d \cup {name} |-> IF k = name THEN <<rec>> ELSE d[k]]

\* ad_groups[name].append(rec) on a defaultdict(list)
dict_append(d, name, rec) ==
    IF name \in DOMAIN d
    THEN [d EXCEPT ![name] = Append(@, rec)]
    ELSE [k \in DOMAIN d \cup {name} |-> IF k = name THEN <<rec>> ELSE d[k]]

-----------------------------------------------------------------------------
\* print_structured_plan, lines 79-93.

\* sorted() on a set of distinct strings
RECURSIVE sorted_keys(_)
sorted_keys(S) ==
    IF S = {} THEN <<>>
    ELSE LET m == CHOOSE x \in S : \A y \in S \ {x} : str_lt(x, y)
         IN  <<m>> \o sorted_keys(S \ {m})

Reverse(s) ==
    [i \in 1..Len(s) |-> s[Len(s) + 1 - i]]

\* insert rec into the ascending sequence s behind every entry not larger
insert_asc(s, rec) ==
    LET before == {i \in DOMAIN s :
                      s[i].avg_monthly_searches <= rec.avg_monthly_searches}
        n == Cardinality(before)
    IN  SubSeq(s, 1, n) \o <<rec>> \o SubSeq(s, n + 1, Len(s))

\* list.sort() by avg_monthly_searches: ascending and stable
RECURSIVE stable_sort_asc(_)
stable_sort_asc(s) ==
    IF s = <<>> THEN <<>>
    ELSE insert_asc(stable_sort_asc(SubSeq(s, 1, Len(s) - 1)), s[Len(s)])

\* sorted(keywords_data, key=...)[::-1]: ascending, then reversed
sorted_reverse_slice(keywords_data) ==
    Reverse(stable_sort_asc(keywords_data))

\* line 90: sorted(keywords_data, key=..., reverse=True); the list is
\* reversed, sorted stably ascending, and reversed again
sorted_reverse(keywords_data) ==
    Reverse(stable_sort_asc(Reverse(keywords_data)))

\* line 82
group_order(groups) ==
    sorted_keys(DOMAIN groups)

\* what lines 84-93 print: per group its name and its rows in printed order
render(groups) ==
    [i \in 1..Len(group_order(groups)) |->
        [group_name |-> group_order(groups)[i],
         rows |-> sorted_reverse(groups[group_order(groups)[i]])]]

-----------------------------------------------------------------------------
\* The script, lines 95-145.

Init ==
    /\ pc = "config"
    /\ exit_code = NoExit
    /\ stdout = <<>>
    /\ brand_name = Acme
    /\ competitor_names = <<Nike>>
    /\ service_locations = <<Austin>>
    /\ min_volume \in 0..MaxVolume
    /\ raw_ideas = <<>>
    /\ filtered_ideas = <<>>
    /\ llm_response = NoResponse
    /\ llm_themes = PyList(<<>>)
    /\ ad_groups = <<>>
    /\ idx = 1
    /\ keyword = <<>>
    /\ ad_group_name = <<>>
    /\ report = <<>>

\* sys.exit(1), or an uncaught exception: the process ends with status 1
Exit1(lines) ==
    /\ stdout' = stdout \o lines
    /\ exit_code' = 1
    /\ pc' = "exit"

\* lines 97-114: config.yaml is read
load_config ==
    /\ pc = "config"
    /\ pc' = "client"
    /\ UNCHANGED <<exit_code, stdout, brand_name, competitor_names,
                   service_locations, min_volume, raw_ideas, filtered_ideas,
                   llm_response, llm_themes, ad_groups, idx, keyword,
                   ad_group_name, report>>

\* lines 101-103: config.yaml is missing
load_config_not_found ==
    /\ pc = "config"
    /\ Exit1(<<"config_not_found">>)
    /\ UNCHANGED <<brand_name, competitor_names, service_locations, min_volume,
                   raw_ideas, filtered_ideas, llm_response, llm_themes,
                   ad_groups, idx, keyword, ad_group_name, report>>

\* lines 117-119: the Google Ads client is loaded
load_client ==
    /\ pc = "client"
    /\ pc' = "fetch"
    /\ UNCHANGED <<exit_code, stdout, brand_name, competitor_names,
                   service_locations, min_volume, raw_ideas, filtered_ideas,
                   llm_response, llm_themes, ad_groups, idx, keyword,
                   ad_group_name, report>>

\* lines 120-122: google-ads.yaml is missing
load_client_not_found ==
    /\ pc = "client"
    /\ Exit1(<<"client_not_found">>)
    /\ UNCHANGED <<brand_name, competitor_names, service_locations, min_volume,
                   raw_ideas, filtered_ideas, llm_response, llm_themes,
                   ad_groups, idx, keyword, ad_group_name, report>>

\* lines 59-74, 125: the idea source answers
get_keyword_ideas ==
    /\ pc = "fetch"
    /\ raw_ideas' \in SeqsUpTo(Ideas, MaxIdeas)
    /\ stdout' = stdout \o <<"ads_contact", "ads_fetched">>
    /\ pc' = "filter"
    /\ UNCHANGED <<exit_code, brand_name, competitor_names, service_locations,
                   min_volume, filtered_ideas, llm_response, llm_themes,
                   ad_groups, idx, keyword, ad_group_name, report>>

\* the except branch without sys.exit(1): the error is printed and an empty
\* result returned
get_keyword_ideas_error_returns ==
    /\ pc = "fetch"
    /\ raw_ideas' = <<>>
    /\ stdout' = stdout \o <<"ads_contact", "ads_error">>
    /\ pc' = "filter"
    /\ UNCHANGED <<exit_code, brand_name, competitor_names, service_locations,
                   min_volume, filtered_ideas, llm_response, llm_themes,
                   ad_groups, idx, keyword, ad_group_name, report>>

\* lines 75-77: the query raises GoogleAdsException
get_keyword_ideas_error ==
    /\ pc = "fetch"
    /\ Exit1(<<"ads_contact", "ads_error">>)
    /\ UNCHANGED <<brand_name, competitor_names, service_locations, min_volume,
                   raw_ideas, filtered_ideas, llm_response, llm_themes,
                   ad_groups, idx, keyword, ad_group_name, report>>

\* lines 62-74: the query raises any other exception, which nothing catches
get_keyword_ideas_uncaught ==
    /\ pc = "fetch"
    /\ Exit1(<<"ads_contact", "traceback">>)
    /\ UNCHANGED <<brand_name, competitor_names, service_locations, min_volume,
                   raw_ideas, filtered_ideas, llm_response, llm_themes,
                   ad_groups, idx, keyword, ad_group_name, report>>

\* lines 127-128
filter_ideas ==
    /\ pc = "filter"
    /\ filtered_ideas' = volume_filter(raw_ideas, min_volume)
    /\ stdout' = Append(stdout, "filtered")
    /\ pc' = "themes"
    /\ UNCHANGED <<exit_code, brand_name, competitor_names, service_locations,
                   min_volume, raw_ideas, llm_response, llm_themes, ad_groups,
                   idx, keyword, ad_group_name, report>>

\* lines 130-133: the theme advisor stage, and ad_groups = defaultdict(list)
get_strategic_themes_from_llm ==
    /\ pc = "themes"
    /\ \E resp \in Responses :
        /\ llm_response' = resp
        /\ llm_themes' = themes_from_response(resp)
        /\ stdout' = stdout \o
              <<"ai_contact",
                IF resp.kind \in {"raise", "invalid_json", "not_object"}
                THEN "ai_error" ELSE "ai_themes">>
    /\ ad_groups' = <<>>
    /\ idx' = 1
    /\ pc' = "bucket"
    /\ UNCHANGED <<exit_code, brand_name, competitor_names, service_locations,
                   min_volume, raw_ideas, filtered_ideas, keyword,
                   ad_group_name, report>>

\* lines 134-143: one iteration of the bucketing loop
bucket_idea ==
    /\ pc = "bucket"
    /\ idx <= Len(filtered_ideas)
    /\ ~classify_raises(filtered_ideas[idx].text, brand_name, competitor_names,
                        llm_themes)
    /\ LET idea == filtered_ideas[idx]
           name == get_ad_group_for_keyword(idea.text, brand_name,
                       competitor_names, service_locations, llm_themes.items)
       IN  /\ keyword' = idea.text
           /\ ad_group_name' = name
           /\ ad_groups' = dict_append(ad_groups, name, record_of(idea))
    /\ idx' = idx + 1
    /\ UNCHANGED <<pc, exit_code, stdout, brand_name, competitor_names,
                   service_locations, min_volume, raw_ideas, filtered_ideas,
                   llm_response, llm_themes, report>>

\* line 136: the classifier raises TypeError, which nothing catches
bucket_idea_raises ==
    /\ pc = "bucket"
    /\ idx <= Len(filtered_ideas)
    /\ classify_raises(filtered_ideas[idx].text, brand_name, competitor_names,
                       llm_themes)
    /\ keyword' = filtered_ideas[idx].text
    /\ Exit1(<<"traceback">>)
    /\ UNCHANGED <<brand_name, competitor_names, service_locations, min_volume,
                   raw_ideas, filtered_ideas, llm_response, llm_themes,
                   ad_groups, idx, ad_group_name, report>>

\* line 145, reached when the loop is exhausted
print_structured_plan ==
    /\ pc = "bucket"
    /\ idx > Len(filtered_ideas)
    /\ report' = render(ad_groups)
    /\ stdout' = Append(stdout, "plan")
    /\ exit_code' = 0
    /\ pc' = "done"
    /\ UNCHANGED <<brand_name, competitor_names, service_locations, min_volume,
                   raw_ideas, filtered_ideas, llm_response, llm_themes,
                   ad_groups, idx, keyword, ad_group_name>>

Next ==
    \/ load_config
    \/ load_config_not_found
    \/ load_client
    \/ load_client_not_found
    \/ get_keyword_ideas
    \/ get_keyword_ideas_error
    \/ get_keyword_ideas_uncaught
    \/ filter_ideas
    \/ get_strategic_themes_from_llm
    \/ bucket_idea
    \/ bucket_idea_raises
    \/ print_structured_plan

Spec ==
    Init /\ [][Next]_vars

-----------------------------------------------------------------------------
\* The classifier on its own: every combination of sample inputs is
\* classified once.

Brands ==
    {Acme, <<>>}

CompetitorLists ==
    {<<>>, <<Nike>>, <<Nike, Puma>>}

LocationLists ==
    {<<>>, <<Austin>>}

SampleThemes ==
    {ThLocalDeals, ThHikingGear, ThFootwearCare, ThQuestions, ThStoresNearYou,
     ThDogToys}

SampleKeywords ==
    {KwAcmeNearMe, KwAcmeAll, KwNikeAustin, KwPumaBest, KwBestNearMe,
     KwAustinDog, KwHowToCare, KwHikingBoots, KwDogFood, KwSocks, KwNearbyGear}

InitClassify ==
    /\ pc = "call"
    /\ exit_code = NoExit
    /\ stdout = <<>>
    /\ brand_name \in Brands
    /\ competitor_names \in CompetitorLists
    /\ service_locations \in LocationLists
    /\ min_volume = 0
    /\ raw_ideas = <<>>
    /\ filtered_ideas = <<>>
    /\ llm_response = NoResponse
    /\ llm_themes \in {PyList(t) : t \in SeqsUpTo(SampleThemes, MaxThemes)}
    /\ ad_groups = <<>>
    /\ idx = 1
    /\ keyword \in SampleKeywords
    /\ ad_group_name = <<>>
    /\ report = <<>>

\* line 136, alone: ad_group_name = get_ad_group_for_keyword(...)
Classify ==
    /\ pc = "call"
    /\ ad_group_name' = get_ad_group_for_keyword(keyword, brand_name,
                            competitor_names, service_locations, llm_themes.items)
    /\ pc' = "return"
    /\ UNCHANGED <<exit_code, stdout, brand_name, competitor_names,
                   service_locations, min_volume, raw_ideas, filtered_ideas,
                   llm_response, llm_themes, ad_groups, idx, keyword, report>>

NextClassify ==
    Classify

SpecClassify ==
    InitClassify /\ [][NextClassify]_vars

-----------------------------------------------------------------------------
\* Properties of get_ad_group_for_keyword, checked under SpecClassify.

\* s occurs in kw at offset o, letter case ignored
OccursAt(s, kw, o) ==
    /\ o + Len(s) <= Len(kw)
    /\ \A j \in 1..Len(s) : lower_char(kw[o + j]) = lower_char(s[j])

\* kw contains s as a case-insensitive substring
ContainsNoCase(kw, s) ==
    \E o \in 0..Len(kw) : OccursAt(s, kw, o)

Returned ==
    pc = "return"

HasBrand ==
    ContainsNoCase(keyword, brand_name)

HasCompetitor ==
    \E i \in DOMAIN competitor_names : ContainsNoCase(keyword, competitor_names[i])

HasLocation ==
    \/ \E i \in DOMAIN service_locations :
          ContainsNoCase(keyword, service_locations[i])
    \/ ContainsNoCase(keyword, TrigNearMe)
    \/ ContainsNoCase(keyword, TrigNearby)

HasInformational ==
    \/ ContainsNoCase(keyword, TrigBest)
    \/ ContainsNoCase(keyword, TrigWhatIs)
    \/ ContainsNoCase(keyword, TrigHowTo)

\* the label is a local-intent theme: it contains "local" or "near"
IsLocalTheme(label) ==
    ContainsNoCase(label, MarkLocal) \/ ContainsNoCase(label, MarkNear)

\* positions a..b of label are a whitespace-separated word
IsWord(label, a, b) ==
    /\ a <= b
    /\ \A k \in a..b : label[k] # " "
    /\ a = 1 \/ label[a - 1] = " "
    /\ b = Len(label) \/ label[b + 1] = " "

\* the label has a word longer than 2 characters that occurs in keyword
HasTriggerInKeyword(label) ==
    \E a \in 1..Len(label), b \in 1..Len(label) :
        /\ IsWord(label, a, b)
        /\ b - a + 1 > 2
        /\ ContainsNoCase(keyword, SubSeq(label, a, b))

Themes ==
    llm_themes.items

\* C1: a keyword containing the brand name, in any letter case, is put in
\* "Brand Terms", whatever else it matches.
C1_BrandWins ==
    (Returned /\ HasBrand) => ad_group_name = BrandTerms

\* reached: a keyword with the brand, a competitor, a location, "best" and a
\* theme trigger word is classified
C1_Witness ==
    /\ Returned
    /\ keyword = KwAcmeAll
    /\ brand_name = Acme
    /\ HasCompetitor /\ HasLocation /\ HasInformational
    /\ Len(Themes) > 0 /\ HasTriggerInKeyword(Themes[1])
    /\ ad_group_name = BrandTerms

\* C2: a keyword containing a competitor name and not the brand name is put in
\* "Competitor Terms", whatever else it matches.
C2_CompetitorWins ==
    (Returned /\ ~HasBrand /\ HasCompetitor) => ad_group_name = CompetitorTerms

\* reached: a keyword with one of two competitors, a location and a theme
\* trigger word, and no brand
C2_Witness ==
    /\ Returned
    /\ keyword = KwNikeAustin
    /\ competitor_names = <<Nike, Puma>>
    /\ ~HasBrand /\ HasLocation
    /\ Len(Themes) > 0 /\ HasTriggerInKeyword(Themes[1])
    /\ ad_group_name = CompetitorTerms

\* C3: a keyword without brand or competitor that contains a location, "near
\* me" or "nearby" gets the first theme whose label contains "local" or
\* "near", or "Location-Based Terms" when there is none, also when it holds an
\* informational trigger or a trigger word of an earlier theme.
C3_LocationRule ==
    (Returned /\ ~HasBrand /\ ~HasCompetitor /\ HasLocation) =>
        \/ \E i \in DOMAIN Themes :
              /\ IsLocalTheme(Themes[i])
              /\ \A j \in 1..(i - 1) : ~IsLocalTheme(Themes[j])
              /\ ad_group_name = Themes[i]
        \/ /\ \A i \in DOMAIN Themes : ~IsLocalTheme(Themes[i])
           /\ ad_group_name = LocationBasedTerms

\* reached: "best hiking shoes near me" with themes Hiking Gear, Local Deals
C3_Witness ==
    /\ Returned
    /\ ~HasBrand /\ ~HasCompetitor /\ HasLocation /\ HasInformational
    /\ Themes = <<ThHikingGear, ThLocalDeals>>
    /\ HasTriggerInKeyword(Themes[1])
    /\ ad_group_name = ThLocalDeals

\* C9: a keyword matching none of rules 1-4 gets the first theme that has a
\* word longer than 2 characters occurring in the keyword, or "General Product
\* & Category Terms" when no theme has one.
C9_ThemeOverlapRule ==
    (Returned /\ ~HasBrand /\ ~HasCompetitor /\ ~HasLocation /\ ~HasInformational) =>
        \/ \E i \in DOMAIN Themes :
              /\ HasTriggerInKeyword(Themes[i])
              /\ \A j \in 1..(i - 1) : ~HasTriggerInKeyword(Themes[j])
              /\ ad_group_name = Themes[i]
        \/ /\ \A i \in DOMAIN Themes : ~HasTriggerInKeyword(Themes[i])
           /\ ad_group_name = GeneralProductCategoryTerms

\* reached: "dog food" skips Footwear Care and matches the 3-letter word of
\* Dog Toys
C9_Witness ==
    /\ Returned
    /\ ~HasBrand /\ ~HasCompetitor /\ ~HasLocation /\ ~HasInformational
    /\ keyword = KwDogFood
    /\ Themes = <<ThFootwearCare, ThDogToys>>
    /\ ad_group_name = ThDogToys

\* C10: the returned bucket name is one of the five fixed names or an element
\* of the themes list; with no themes it is one of the five fixed names.
C10_ResultRange ==
    Returned =>
        /\ ad_group_name \in FixedBuckets \cup {Themes[i] : i \in DOMAIN Themes}
        /\ Themes = <<>> => ad_group_name \in FixedBuckets

\* reached: a theme label is returned by the overlap rule
C10_Witness ==
    /\ Returned
    /\ keyword = KwHikingBoots
    /\ ad_group_name = ThHikingGear
    /\ ad_group_name \notin FixedBuckets

-----------------------------------------------------------------------------
\* Properties of the pipeline, checked under Spec.

Printed(tag) ==
    \E i \in DOMAIN stdout : stdout[i] = tag

\* the bucketing loop has run through filtered_ideas
LoopDone ==
    \/ pc = "done"
    \/ pc = "bucket" /\ idx > Len(filtered_ideas)

\* the places <<bucket name, position>> of the plan
PlanPlaces ==
    UNION {{g} \X DOMAIN ad_groups[g] : g \in DOMAIN ad_groups}

\* the volume of an idea, a missing value counted as 0
VolumeOf(idea) ==
    IF idea.avg_monthly_searches = None THEN 0 ELSE idea.avg_monthly_searches

\* the record an idea is stored as
RecordOf(idea) ==
    [keyword |-> idea.text, avg_monthly_searches |-> VolumeOf(idea)]

CountInPlan(r) ==
    Cardinality({p \in PlanPlaces : ad_groups[p[1]][p[2]] = r})

CountInFiltered(r) ==
    Cardinality({i \in DOMAIN filtered_ideas : RecordOf(filtered_ideas[i]) = r})

\* C4: after the bucketing loop, the buckets together hold every filtered
\* idea exactly once and nothing else, and no idea is in two buckets.
C4_GroupingTotal ==
    LoopDone =>
        /\ \A r \in {ad_groups[p[1]][p[2]] : p \in PlanPlaces}
                    \cup {RecordOf(filtered_ideas[i]) : i \in DOMAIN filtered_ideas} :
              CountInPlan(r) = CountInFiltered(r)
        /\ \A p, q \in PlanPlaces :
              ad_groups[p[1]][p[2]] = ad_groups[q[1]][q[2]] => p[1] = q[1]

\* reached: two filtered ideas were put in two buckets
C4_Witness ==
    /\ pc = "done"
    /\ Len(filtered_ideas) = 2
    /\ Cardinality(DOMAIN ad_groups) = 2

\* the indices of raw_ideas whose volume reaches the threshold
Kept ==
    {i \in DOMAIN raw_ideas : VolumeOf(raw_ideas[i]) >= min_volume}

\* C5: the filter returns exactly the raw ideas whose volume (missing = 0) is
\* at least the threshold, in their original order, and filtering its result
\* again returns the same sequence.
C5_VolumeFilter ==
    Printed("filtered") =>
        /\ Len(filtered_ideas) = Cardinality(Kept)
        /\ \A i \in Kept :
              filtered_ideas[Cardinality({k \in Kept : k <= i})] = raw_ideas[i]
        /\ volume_filter(filtered_ideas, min_volume) = filtered_ideas

\* reached: an idea without a volume is dropped and one exactly at the
\* threshold is kept
C5_Witness ==
    /\ pc = "themes"
    /\ min_volume = 1
    /\ Len(raw_ideas) = 2
    /\ raw_ideas[1].avg_monthly_searches = None
    /\ raw_ideas[2].avg_monthly_searches = 1
    /\ filtered_ideas = <<raw_ideas[2]>>

\* the advisor stage has run and its response was not a JSON object of the
\* shape {"themes": [...]}
AdvisorFailed ==
    llm_response.kind \in
        {"raise", "invalid_json", "not_object", "no_themes_key", "themes_null"}

\* C6: whenever the advisor call raises or its response is not a JSON object
\* of the shape {"themes": [...]}, the themes are the fixed fallback list and
\* the failure does not end the run.
C6_FallbackOnFailure ==
    AdvisorFailed => (llm_themes = PyList(FallbackThemes) /\ exit_code # 1)

\* C7: a report is printed only after fetch, filter, advisor stage and the
\* classification of every filtered idea; a failed idea query ends the process
\* with a non-zero status before any later stage has run.
C7_NoPartialReport ==
    /\ Printed("plan") =>
          /\ \E ai \in {"ai_themes", "ai_error"} :
                stdout = <<"ads_contact", "ads_fetched", "filtered",
                           "ai_contact", ai, "plan">>
          /\ llm_response # NoResponse
          /\ idx = Len(filtered_ideas) + 1
          /\ Cardinality(PlanPlaces) = Len(filtered_ideas)
          /\ exit_code = 0
    /\ (Printed("ads_error") \/ stdout = <<"ads_contact", "traceback">>) =>
          /\ pc = "exit"
          /\ exit_code = 1
          /\ Len(stdout) = 2
          /\ filtered_ideas = <<>>
          /\ llm_response = NoResponse
          /\ ad_groups = <<>>
          /\ ~Printed("plan")

\* reached: the idea query failed and the process exited with status 1
C7_Witness ==
    /\ Printed("ads_error")
    /\ exit_code = 1
    /\ pc = "exit"

\* a < b in lexicographic order of code points
LexLess(a, b) ==
    \E k \in 1..(Len(a) + 1) :
        /\ \A j \in 1..(k - 1) : j <= Len(b) /\ a[j] = b[j]
        /\ \/ k = Len(a) + 1 /\ k <= Len(b)
           \/ k <= Len(a) /\ k <= Len(b) /\ CodePoint[a[k]] < CodePoint[b[k]]

\* the entries of s with volume v, in order
WithVolume(s, v) ==
    SelectSeq(s, LAMBDA r : r.avg_monthly_searches = v)

\* the records of the filtered ideas classified into bucket g, in order
FilteredInto(g) ==
    LET mine == SelectSeq(filtered_ideas, LAMBDA idea :
                    get_ad_group_for_keyword(idea.text, brand_name,
                        competitor_names, service_locations, llm_themes.items) = g)
    IN  [i \in 1..Len(mine) |-> RecordOf(mine[i])]

\* C8: the groups are printed in lexicographic order of bucket name; within a
\* group the rows are in descending order of avg_monthly_searches, rows of
\* equal volume keeping the order of the bucket, which is the order of the
\* filtered ideas.
C8_RenderOrder ==
    pc = "done" =>
        /\ {report[i].group_name : i \in DOMAIN report} = DOMAIN ad_groups
        /\ \A i, j \in DOMAIN report :
              i < j => LexLess(report[i].group_name, report[j].group_name)
        /\ \A i \in DOMAIN report :
              LET rows == report[i].rows
                  bucket == ad_groups[report[i].group_name]
              IN  /\ Len(rows) = Len(bucket)
                  /\ \A a, b \in DOMAIN rows :
                        a < b => rows[a].avg_monthly_searches
                                    >= rows[b].avg_monthly_searches
                  /\ \A v \in 0..MaxVolume :
                        WithVolume(rows, v) = WithVolume(bucket, v)
                  /\ bucket = FilteredInto(report[i].group_name)

\* reached: a printed group holds two different keywords of equal volume
C8_Witness ==
    /\ pc = "done"
    /\ \E i \in DOMAIN report :
          /\ Len(report[i].rows) = 2
          /\ report[i].rows[1].avg_monthly_searches
                = report[i].rows[2].avg_monthly_searches
          /\ report[i].rows[1].keyword # report[i].rows[2].keyword

====
